---- MODULE Spec2Model ----
(***************************************************************************)
(* Model of the component task-factory builder                             *)
(* (sdk/python/kfp/components/_components.py) and of the pipeline          *)
(* ops-group stack exercised by sdk/python/tests/dsl/ops_group_tests.py.   *)
(*                                                                         *)
(* A Python str is a sequence of one-character strings; None is the        *)
(* one-element sequence None, which no str equals.                         *)
(***************************************************************************)
EXTENDS Integers, Sequences, FiniteSets, TLC

VARIABLES
    name,           \* argument of the last _sanitize_python_function_name call
    sanitized,      \* its return value
    load_args,      \* arguments (filename, url, text) of a load_component call
    load_outcome,   \* how that call ended
    loader_calls,   \* the loaders the call delegated to, in order
    factory,        \* the closure built by _create_task_factory_from_component_spec
    component_refs, \* the ComponentReference objects, by identity
    created_task_transformation_handler, \* module-level hook list
    hook_calls,     \* log of hook invocations
    task,           \* the last factory invocation: its arguments and return value
    groups,         \* Pipeline.groups: the stack of open OpsGroups
    ops_groups,     \* the OpsGroup objects, by identity
    ops,            \* the ContainerOp objects, by identity
    raised          \* the exception propagating out of the pipeline body

vars == <<name, sanitized, load_args, load_outcome, loader_calls, factory,
          component_refs, created_task_transformation_handler, hook_calls,
          task, groups, ops_groups, ops, raised>>

sanitizerVars == <<name, sanitized>>
loaderVars == <<load_args, load_outcome, loader_calls>>
factoryVars == <<factory, component_refs>>
hookVars == <<created_task_transformation_handler, hook_calls, task>>
pipelineVars == <<groups, ops_groups, ops, raised>>

(***************************************************************************)
(* Bounds of the model.                                                    *)
(***************************************************************************)
MaxNameLen == 3
MaxSourceLen == 1
MaxInputs == 4
MaxBindInputs == 2
MaxHooks == 3
MaxCalls == 2
MaxRefs == 2
MaxGroups == 4
MaxOps == 4
MaxExitGroups == 2
MaxExitOps == 2
MaxAfter == 1

(***************************************************************************)
(* Python values.                                                          *)
(***************************************************************************)
None == <<"None">>
NotCalled == <<"NotCalled">>

UpperCase == {"A", "B"}
LowerCase == {"a", "b", "n"}
Digits == {"0", "1", "2", "3", "4", "5", "6", "7", "8", "9"}

\* str.lower(), one character
lower(c) == CASE c = "A" -> "a" [] c = "B" -> "b" [] OTHER -> c

\* the regular expression class \w
IsWordChar(c) == c \in UpperCase \cup LowerCase \cup Digits \cup {"_"}

RECURSIVE StripLeft(_)
StripLeft(s) == IF s # <<>> /\ Head(s) = " " THEN StripLeft(Tail(s)) ELSE s

RECURSIVE StripRight(_)
StripRight(s) ==
    IF s # <<>> /\ s[Len(s)] = " " THEN StripRight(SubSeq(s, 1, Len(s) - 1)) ELSE s

\* str.strip()
strip(s) == StripRight(StripLeft(s))

\* re.sub(' +', ' ', s): every run of spaces becomes one space
RECURSIVE CollapseSpaces(_)
CollapseSpaces(s) ==
    IF Len(s) < 2 THEN s
    ELSE IF s[1] = " " /\ s[2] = " " THEN CollapseSpaces(Tail(s))
    ELSE <<s[1]>> \o CollapseSpaces(Tail(s))

\* str.replace(old, new) for one-character old and new
replace(s, old, new) == [i \in 1..Len(s) |-> IF s[i] = old THEN new ELSE s[i]]

RECURSIVE str_int(_)
\* str(i) for an int i >= 0
str_int(i) ==
    LET digit == <<"0", "1", "2", "3", "4", "5", "6", "7", "8", "9">>[(i % 10) + 1]
    IN IF i < 10 THEN <<digit>> ELSE str_int(i \div 10) \o <<digit>>

NormalizeNoPrefix(name_) ==
    LET lowered == [i \in 1..Len(name_) |-> lower(name_[i])]
        spaced == [i \in 1..Len(lowered) |->
                      IF ~IsWordChar(lowered[i]) \/ lowered[i] = "_"
                      THEN " " ELSE lowered[i]]
    IN strip(CollapseSpaces(spaced))

_normalize_identifier_name(name_) ==
    LET normalized_name == NormalizeNoPrefix(name_)
    IN IF normalized_name # <<>> /\ normalized_name[1] \in Digits
       THEN <<"n">> \o normalized_name
       ELSE normalized_name

_sanitize_python_function_name(name_) ==
    replace(_normalize_identifier_name(name_), " ", "_")

(***************************************************************************)
(* Input domains.                                                          *)
(***************************************************************************)
Alphabet == {"a", "A", "2", "_", " ", "-"}

Strings(alphabet, n) == UNION {[1..k -> alphabet] : k \in 0..n}

NoFactory ==
    [built |-> FALSE, func_name |-> None, inputs_list |-> <<>>,
     input_name_to_pythonic |-> <<>>, pythonic_name_to_input_name |-> <<>>,
     component_ref |-> 0, factory_function_parameters |-> <<>>]
NoTask ==
    [called |-> FALSE, pythonic_arguments |-> <<>>,
     value |-> [component_ref |-> 0, arguments |-> <<>>]]
NoError == <<"NoError">>

IdleSanitizer == name = NotCalled /\ sanitized = NotCalled
IdleLoader ==
    /\ load_args = [filename |-> None, url |-> None, text |-> None]
    /\ load_outcome = NotCalled
    /\ loader_calls = <<>>
IdleFactory == factory = NoFactory /\ component_refs = <<>>
\* line 196: the module registers the DSL bridge when it is imported
IdleHooks ==
    /\ created_task_transformation_handler = <<"create_container_op_from_task">>
    /\ hook_calls = <<>>
    /\ task = NoTask
IdlePipeline == groups = <<>> /\ ops_groups = <<>> /\ ops = <<>> /\ raised = NoError

(***************************************************************************)
(* The identifier sanitizer, as a call.                                    *)
(***************************************************************************)
InitSanitize ==
    /\ name \in Strings(Alphabet, MaxNameLen)
    /\ sanitized = NotCalled
    /\ IdleLoader /\ IdleFactory /\ IdleHooks /\ IdlePipeline

Sanitize ==
    /\ sanitized = NotCalled
    /\ sanitized' = _sanitize_python_function_name(name)
    /\ UNCHANGED <<name, loaderVars, factoryVars, hookVars, pipelineVars>>

SpecSanitize == InitSanitize /\ [][Sanitize]_vars

Letters == UpperCase \cup LowerCase

IsValidIdentifier(s) ==
    /\ s # <<>>
    /\ s[1] \in Letters
    /\ \A i \in 1..Len(s) : s[i] \in Letters \cup Digits \cup {"_"}

\* C4: for every input name, _sanitize_python_function_name returns a valid
\* identifier: non-empty, first character a letter, every character a letter,
\* a digit or an underscore.
C4_SanitizedIsValidIdentifier ==
    sanitized # NotCalled => IsValidIdentifier(sanitized)

(***************************************************************************)
(* load_component.                                                         *)
(***************************************************************************)
SourceAlphabet == {"a", "b", "c"}

SourceArgs == {None} \cup Strings(SourceAlphabet, MaxSourceLen)

\* truth value of a str or None
Truthy(v) == v # None /\ v # <<>>

load_component(filename, url, text) ==
    LET locals == <<filename, url, text>>
        non_null_args_count == Cardinality({i \in 1..3 : locals[i] # None})
    IN /\ load_args' = [filename |-> filename, url |-> url, text |-> text]
       /\ IF non_null_args_count # 1
          THEN /\ load_outcome' = <<"ValueError", "Need to specify exactly one source">>
               /\ loader_calls' = <<>>
          ELSE IF Truthy(filename)
          THEN /\ load_outcome' = <<"delegated">>
               /\ loader_calls' = <<"load_component_from_file">>
          ELSE IF Truthy(url)
          THEN /\ load_outcome' = <<"delegated">>
               /\ loader_calls' = <<"load_component_from_url">>
          ELSE IF Truthy(text)
          THEN /\ load_outcome' = <<"delegated">>
               /\ loader_calls' = <<"load_component_from_text">>
          ELSE /\ load_outcome' = <<"ValueError", "Need to specify a source">>
               /\ loader_calls' = <<>>
       /\ UNCHANGED <<sanitizerVars, factoryVars, hookVars, pipelineVars>>

InitLoad ==
    IdleSanitizer /\ IdleLoader /\ IdleFactory /\ IdleHooks /\ IdlePipeline

LoadComponent ==
    \E filename \in SourceArgs, url \in SourceArgs, text \in SourceArgs :
        load_component(filename, url, text)

SpecLoad == InitLoad /\ [][LoadComponent]_vars

Specified(args) ==
    {k \in {"filename", "url", "text"} : args[k] # None}

LoaderOf(k) ==
    CASE k = "filename" -> "load_component_from_file"
      [] k = "url" -> "load_component_from_url"
      [] k = "text" -> "load_component_from_text"

\* C5: load_component raises, with no loader called, whenever zero or more
\* than one of filename, url and text is specified; whenever exactly one is
\* specified it delegates to the loader of that source and to no other.
C5_ExactlyOneSourceDelegates ==
    load_outcome # NotCalled =>
        IF Cardinality(Specified(load_args)) # 1
        THEN load_outcome[1] = "ValueError" /\ loader_calls = <<>>
        ELSE \E k \in Specified(load_args) :
                 /\ load_outcome = <<"delegated">>
                 /\ loader_calls = <<LoaderOf(k)>>

(***************************************************************************)
(* _create_task_factory_from_component_spec.                               *)
(*                                                                         *)
(* A dict is a function on its keys.  A ComponentSpec is                   *)
(* [name, inputs], inputs a sequence of InputSpec [name, optional]; the    *)
(* names of one ComponentSpec's inputs are pairwise distinct.  A           *)
(* ComponentReference is an index into component_refs, 0 standing for the  *)
(* argument None.  The description of the component and the type of an     *)
(* input only reach the documentation and the annotations of the produced  *)
(* function and are left out.                                              *)
(***************************************************************************)
_default_component_name == <<"C", "o", "m", "p", "o", "n", "e", "n", "t">>

EmptyDict == <<>>

DictSet(d, k, v) == [x \in (DOMAIN d) \cup {k} |-> IF x = k THEN v ELSE d[x]]

\* a or b
Or(a, b) == IF Truthy(a) THEN a ELSE b

RECURSIVE FirstUnusedIndexFromNext(_, _, _, _)
\* the loop started one index late
FirstUnusedIndexFromNext(name_, collection, delimiter, i) ==
    LET unique_name == name_ \o delimiter \o str_int(i + 1)
    IN IF unique_name \notin DOMAIN collection
       THEN unique_name
       ELSE FirstUnusedIndexFromNext(name_, collection, delimiter, i + 1)

RECURSIVE FirstUnusedIndex(_, _, _, _)
\* lines 183-186: the loop over range(2, sys.maxsize**10)
FirstUnusedIndex(name_, collection, delimiter, i) ==
    LET unique_name == name_ \o delimiter \o str_int(i)
    IN IF unique_name \notin DOMAIN collection
       THEN unique_name
       ELSE FirstUnusedIndex(name_, collection, delimiter, i + 1)

\* the name returned without looking at the collection
NameNotMadeUnique(name_, collection, delimiter) == name_

_make_name_unique_by_adding_index(name_, collection, delimiter) ==
    IF name_ \in DOMAIN collection
    THEN FirstUnusedIndex(name_, collection, delimiter, 2)
    ELSE name_

RECURSIVE NameTranslationTables(_, _, _)
\* lines 207-213: the loop over inputs_list, from its i-th element on
NameTranslationTables(inputs_list, i, tables) ==
    IF i > Len(inputs_list) THEN tables
    ELSE LET io_port == inputs_list[i]
             pythonic_name ==
                 _make_name_unique_by_adding_index(
                     _sanitize_python_function_name(io_port.name),
                     tables.pythonic_name_to_input_name, <<"_">>)
         IN NameTranslationTables(inputs_list, i + 1,
                [input_name_to_pythonic |->
                     DictSet(tables.input_name_to_pythonic, io_port.name, pythonic_name),
                 pythonic_name_to_input_name |->
                     DictSet(tables.pythonic_name_to_input_name, pythonic_name, io_port.name)])

\* the inputs left in their declared order
DeclaredOrderInputList(inputs_list) == inputs_list

\* line 239
ReorderedInputList(inputs_list) ==
    LET required(input) == ~input.optional
        optional(input) == input.optional
    IN SelectSeq(inputs_list, required) \o SelectSeq(inputs_list, optional)

\* line 240: the KwParameter of each port; a default of None or none at all
InputParameters(reordered_input_list, input_name_to_pythonic) ==
    [i \in 1..Len(reordered_input_list) |->
        [name |-> input_name_to_pythonic[reordered_input_list[i].name],
         has_default |-> reordered_input_list[i].optional]]

\* lines 215-217
AttachedComponentRefs(refs, component_spec, component_filename, component_ref) ==
    IF component_ref = 0
    THEN Append(refs,
             [name |-> Or(component_spec.name, Or(component_filename, _default_component_name)),
              _component_spec |-> component_spec])
    ELSE [refs EXCEPT ![component_ref]._component_spec = component_spec]

_create_task_factory_from_component_spec(component_spec, component_filename, component_ref) ==
    LET name_ == Or(component_spec.name, _default_component_name)
        inputs_list == component_spec.inputs
        tables == NameTranslationTables(inputs_list, 1,
                      [input_name_to_pythonic |-> EmptyDict,
                       pythonic_name_to_input_name |-> EmptyDict])
        refs == AttachedComponentRefs(component_refs, component_spec,
                                      component_filename, component_ref)
    IN /\ component_refs' = refs
       /\ factory' =
              [built |-> TRUE,
               func_name |-> name_,
               inputs_list |-> inputs_list,
               input_name_to_pythonic |-> tables.input_name_to_pythonic,
               pythonic_name_to_input_name |-> tables.pythonic_name_to_input_name,
               component_ref |-> IF component_ref = 0 THEN Len(refs) ELSE component_ref,
               factory_function_parameters |->
                   InputParameters(ReorderedInputList(inputs_list),
                                   tables.input_name_to_pythonic)]
       /\ UNCHANGED <<sanitizerVars, loaderVars, hookVars, pipelineVars>>

InputNames == {<<"a">>, <<"A">>, <<"a", " ", "2">>, <<"A", "_", "2">>, <<"2">>}

ComponentNames == {None, <<"C">>}

ComponentFilenames == {None, <<"f">>}

IsInjective(seq) == \A i, j \in 1..Len(seq) : seq[i] = seq[j] => i = j

InputLists(input_names, n) ==
    UNION {{[i \in 1..k |-> [name |-> names[i], optional |-> flags[i]]] :
               names \in {ns \in [1..k -> input_names] : IsInjective(ns)},
               flags \in [1..k -> BOOLEAN]} : k \in 0..n}

ComponentSpecs(component_names, input_names, n) ==
    [name : component_names, inputs : InputLists(input_names, n)]

\* the first factory built after the module is loaded
FirstBuild(component_specs) ==
    /\ ~factory.built
    /\ \E component_spec \in component_specs, component_filename \in ComponentFilenames :
          _create_task_factory_from_component_spec(component_spec, component_filename, 0)

InitFactory ==
    IdleSanitizer /\ IdleLoader /\ IdleFactory /\ IdleHooks /\ IdlePipeline

BuildFactory == FirstBuild(ComponentSpecs(ComponentNames, InputNames, MaxInputs))

SpecFactory == InitFactory /\ [][BuildFactory]_vars

(***************************************************************************)
(* Claims about one built factory.                                         *)
(***************************************************************************)
\* the i-th declared input, its sanitized name and its caller identifier
DeclaredInput(i) == factory.inputs_list[i]
SanitizedName(i) == _sanitize_python_function_name(DeclaredInput(i).name)
CallerIdentifier(i) == factory.input_name_to_pythonic[DeclaredInput(i).name]
DeclaredIndices == 1..Len(factory.inputs_list)
EarlierIdentifiers(i) == {CallerIdentifier(j) : j \in 1..(i - 1)}

CallerIdentifiersDistinct ==
    \A i, j \in DeclaredIndices : CallerIdentifier(i) = CallerIdentifier(j) => i = j

\* the sanitized name followed by '_' and the smallest integer >= 2 unused so far
HasSmallestUnusedSuffix(i) ==
    \E k \in 2..(Len(factory.inputs_list) + 1) :
        /\ CallerIdentifier(i) = SanitizedName(i) \o <<"_">> \o str_int(k)
        /\ CallerIdentifier(i) \notin EarlierIdentifiers(i)
        /\ \A m \in 2..(k - 1) :
               SanitizedName(i) \o <<"_">> \o str_int(m) \in EarlierIdentifiers(i)

InCollidingGroup(i) ==
    \E j \in DeclaredIndices : j # i /\ SanitizedName(j) = SanitizedName(i)

FirstOfGroup(i) == \A j \in 1..(i - 1) : SanitizedName(j) # SanitizedName(i)

DeclarationIndex(p) ==
    CHOOSE i \in DeclaredIndices :
        DeclaredInput(i).name =
            factory.pythonic_name_to_input_name[factory.factory_function_parameters[p].name]

\* C7: in the synthesized parameter list every parameter without a default
\* (a non-optional input) precedes every parameter with a default (an
\* optional input), and within each of the two groups the parameters keep the
\* relative order of their declaration.
C7_RequiredBeforeOptionalStable ==
    factory.built =>
        LET parameters == factory.factory_function_parameters
        IN /\ Len(parameters) = Len(factory.inputs_list)
           /\ \A p \in 1..Len(parameters) :
                  /\ parameters[p].name \in DOMAIN factory.pythonic_name_to_input_name
                  /\ parameters[p].has_default = DeclaredInput(DeclarationIndex(p)).optional
           /\ \A p, q \in 1..Len(parameters) :
                  p < q =>
                      /\ ~(parameters[p].has_default /\ ~parameters[q].has_default)
                      /\ parameters[p].has_default = parameters[q].has_default
                             => DeclarationIndex(p) < DeclarationIndex(q)

\* an optional input declared before a required one, and two of each kind
C7_Witness ==
    /\ factory.built
    /\ \E i, j, k, l \in DeclaredIndices :
           /\ i < j /\ j < k /\ k < l
           /\ DeclaredInput(i).optional /\ ~DeclaredInput(j).optional
           /\ DeclaredInput(k).optional /\ ~DeclaredInput(l).optional

(***************************************************************************)
(* The produced factory: create_task_from_component_and_arguments.         *)
(*                                                                         *)
(* An argument value is [kind, repr]: the name of its type and its string  *)
(* representation.  A hook is known by its name; what it returns for a     *)
(* TaskSpec is HookReturn.                                                 *)
(***************************************************************************)
NoneValue == [kind |-> "NoneType", repr |-> "None"]

ArgumentValues ==
    {NoneValue,
     [kind |-> "str", repr |-> "x"],
     [kind |-> "int", repr |-> "1"],
     [kind |-> "float", repr |-> "1.5"],
     [kind |-> "bool", repr |-> "True"],
     [kind |-> "GraphInputArgument", repr |-> "GraphInputArgument(input_name='x')"],
     [kind |-> "TaskOutputArgument", repr |-> "TaskOutputArgument(task_id='t', output_name='y')"],
     [kind |-> "list", repr |-> "[1]"]}

\* line 221
valid_argument_types ==
    {"str", "int", "float", "bool", "GraphInputArgument", "TaskOutputArgument"}

isinstance(v, types) == v.kind \in types

\* the value bound without coercion
NotCoerced(v) == v

\* str(v)
str(v) == [kind |-> "str", repr |-> v.repr]

RECURSIVE BoundArguments(_, _, _)
\* lines 222-226: the dict comprehension over pythonic_arguments.items(), whose
\* keys are the factory's parameters in their order, from the i-th on
BoundArguments(pythonic_arguments, i, arguments) ==
    IF i > Len(factory.factory_function_parameters) THEN arguments
    ELSE LET k == factory.factory_function_parameters[i].name
             v == pythonic_arguments[k]
         IN BoundArguments(pythonic_arguments, i + 1,
                IF v # NoneValue
                THEN DictSet(arguments, factory.pythonic_name_to_input_name[k],
                             IF isinstance(v, valid_argument_types) THEN v ELSE str(v))
                ELSE arguments)

HookReturn(hook, task_spec) == [transformed_by |-> hook, task_spec |-> task_spec]

\* the first registered hook called instead of the last
TransformedByFirstHandler(handlers, task_spec) ==
    IF handlers # <<>>
    THEN [calls |-> <<[hook |-> handlers[1], task_spec |-> task_spec]>>,
          result |-> [transformed_by |-> handlers[1], task_spec |-> task_spec]]
    ELSE [calls |-> <<>>, result |-> task_spec]

\* lines 231-232: the hooks called on task_spec, in order, and the value returned
TransformedTask(handlers, task_spec) ==
    IF handlers # <<>>
    THEN [calls |-> <<[hook |-> handlers[Len(handlers)], task_spec |-> task_spec]>>,
          result |-> HookReturn(handlers[Len(handlers)], task_spec)]
    ELSE [calls |-> <<>>, result |-> task_spec]

create_task_from_component_and_arguments(pythonic_arguments) ==
    LET arguments == BoundArguments(pythonic_arguments, 1, EmptyDict)
        task_spec == [component_ref |-> factory.component_ref, arguments |-> arguments]
        transformed ==
            TransformedTask(created_task_transformation_handler, task_spec)
    IN /\ hook_calls' = hook_calls \o transformed.calls
       /\ task' = [called |-> TRUE, pythonic_arguments |-> pythonic_arguments,
                   value |-> transformed.result]
       /\ UNCHANGED <<created_task_transformation_handler, sanitizerVars, loaderVars,
                      factoryVars, pipelineVars>>

ParameterNames ==
    {factory.factory_function_parameters[i].name :
        i \in 1..Len(factory.factory_function_parameters)}

\* a call of the factory: one value per parameter, None where none is supplied
InvokeFactory(values) ==
    /\ factory.built
    /\ \E pythonic_arguments \in [ParameterNames -> values] :
           create_task_from_component_and_arguments(pythonic_arguments)

\* _created_task_transformation_handler.append(hook)
RegisterHook(hook) ==
    /\ created_task_transformation_handler' =
           Append(created_task_transformation_handler, hook)
    /\ UNCHANGED <<hook_calls, task, sanitizerVars, loaderVars, factoryVars, pipelineVars>>

(***************************************************************************)
(* Argument binding: one factory, one invocation.                          *)
(***************************************************************************)
BindInputNames == {<<"a">>, <<"A">>, <<"2">>}

BindBuild == FirstBuild(ComponentSpecs({None}, BindInputNames, MaxBindInputs))

BindInvoke == ~task.called /\ InvokeFactory(ArgumentValues)

SpecBind == InitFactory /\ [][BindBuild \/ BindInvoke]_vars

AcceptedKinds ==
    {"str", "int", "float", "bool", "TaskOutputArgument", "GraphInputArgument"}

\* C8: the arguments of the constructed TaskSpec are keyed by original port
\* name, with exactly one entry per caller identifier whose supplied value is
\* not None: an input given no value has no entry, a value of an accepted kind
\* is bound unchanged and a value of any other kind is bound as its string
\* representation.
C8_ArgumentsBound ==
    task.called =>
        LET supplied == task.pythonic_arguments
            present == {k \in DOMAIN supplied : supplied[k] # NoneValue}
            arguments == task.value.task_spec.arguments
        IN /\ DOMAIN arguments = {factory.pythonic_name_to_input_name[k] : k \in present}
           /\ DOMAIN arguments \subseteq {DeclaredInput(i).name : i \in DeclaredIndices}
           /\ Cardinality(DOMAIN arguments) = Cardinality(present)
           /\ \A k \in present :
                  arguments[factory.pythonic_name_to_input_name[k]] =
                      IF supplied[k].kind \in AcceptedKinds
                      THEN supplied[k]
                      ELSE [kind |-> "str", repr |-> supplied[k].repr]

\* a call that leaves one input without a value and passes a list for another
C8_Witness ==
    /\ task.called
    /\ \E k, l \in DOMAIN task.pythonic_arguments :
           /\ task.pythonic_arguments[k] = NoneValue
           /\ task.pythonic_arguments[l].kind = "list"
           /\ DOMAIN task.value.task_spec.arguments =
                  {factory.pythonic_name_to_input_name[l]}

(***************************************************************************)
(* The hook registry: one factory, registrations and invocations.          *)
(***************************************************************************)
Hooks == {"create_container_op_from_task", "hook_a", "hook_b"}

HookArgumentValues == {NoneValue, [kind |-> "str", repr |-> "x"]}

HooksBuild == FirstBuild(ComponentSpecs({None}, {<<"a">>}, 1))

HooksRegister ==
    /\ Len(created_task_transformation_handler) < MaxHooks
    /\ \E hook \in Hooks : RegisterHook(hook)

HooksInvoke ==
    /\ Len(hook_calls) < MaxCalls
    /\ InvokeFactory(HookArgumentValues)

SpecHooks == InitFactory /\ [][HooksBuild \/ HooksRegister \/ HooksInvoke]_vars

IsPrefix(s, t) == Len(s) <= Len(t) /\ SubSeq(t, 1, Len(s)) = s

\* C9: each factory invocation calls exactly one hook, the most recently
\* registered one at the time of the call, exactly once, on the TaskSpec it
\* constructed, and returns that hook's return value; a registration appends
\* to the sequence, keeps the earlier hooks and calls none; with no hook
\* registered an invocation returns the TaskSpec itself.
C9_LastRegisteredHookWins ==
    [][/\ IsPrefix(created_task_transformation_handler,
                   created_task_transformation_handler')
       /\ created_task_transformation_handler' # created_task_transformation_handler
              => hook_calls' = hook_calls /\ task' = task
       /\ (task' # task \/ hook_calls' # hook_calls) =>
              LET handlers == created_task_transformation_handler
                  constructed ==
                      [component_ref |-> factory.component_ref,
                       arguments |->
                           [n \in {factory.pythonic_name_to_input_name[k] :
                                      k \in {x \in DOMAIN task'.pythonic_arguments :
                                                task'.pythonic_arguments[x] # NoneValue}}
                               |-> task'.pythonic_arguments[factory.input_name_to_pythonic[n]]]]
              IN IF handlers = <<>>
                 THEN hook_calls' = hook_calls /\ task'.value = constructed
                 ELSE /\ hook_calls' =
                             Append(hook_calls,
                                    [hook |-> handlers[Len(handlers)],
                                     task_spec |-> constructed])
                      /\ task'.value = HookReturn(handlers[Len(handlers)], constructed)
      ]_vars

\* two invocations with different hooks registered last: each called its own
C9_Witness ==
    /\ Len(created_task_transformation_handler) >= 3
    /\ Len(hook_calls) = 2
    /\ hook_calls[1].hook # hook_calls[2].hook
    /\ hook_calls[2].hook =
           created_task_transformation_handler[Len(created_task_transformation_handler)]
    /\ task.called

(***************************************************************************)
(* The ComponentReference back-reference over several builds.              *)
(***************************************************************************)
RefBuild ==
    \E component_spec \in ComponentSpecs(ComponentNames, {<<"a">>}, 1),
       component_filename \in ComponentFilenames,
       component_ref \in 0..Len(component_refs) :
        /\ component_ref = 0 => Len(component_refs) < MaxRefs
        /\ _create_task_factory_from_component_spec(component_spec, component_filename,
                                                    component_ref)

SpecRefs == InitFactory /\ [][RefBuild]_vars

\* C10: a build given a ComponentReference that already carries a ComponentSpec
\* back-reference leaves that back-reference unchanged: the back-reference of
\* a ComponentReference is set once and never again.
C10_BackReferenceSetOnce ==
    [][\A r \in 1..Len(component_refs) :
           component_refs'[r]._component_spec = component_refs[r]._component_spec]_vars

(***************************************************************************)
(* The pipeline group stack.                                               *)
(*                                                                         *)
(* An OpsGroup is [type, ops, groups, exit_op, parent, closed]: ops and     *)
(* groups are the sequences of its tasks and child groups; parent is the   *)
(* group that was current when its scope was entered and closed the number *)
(* of its scope exit among all scope exits (0 while it is open).  A        *)
(* ContainerOp is [dependent_names, group]: the ops it runs after and the  *)
(* group that was current when it was constructed.  Both are known by      *)
(* their index, which is their order of construction.                      *)
(***************************************************************************)
GroupTypes == {"exit_handler", "branch", "loop"}

NewOpsGroup(type, exit_op, parent) ==
    [type |-> type, ops |-> <<>>, groups |-> <<>>, exit_op |-> exit_op,
     parent |-> parent, closed |-> 0]

Top == groups[Len(groups)]

Closings == Cardinality({g \in 1..Len(ops_groups) : ops_groups[g].closed > 0})

\* with Pipeline(name) as p: the root group is pushed
PipelineEnter ==
    /\ groups = <<>> /\ ops_groups = <<>>
    /\ ops_groups' = <<NewOpsGroup("pipeline", 0, 0)>>
    /\ groups' = <<1>>
    /\ UNCHANGED <<ops, raised, sanitizerVars, loaderVars, factoryVars, hookVars>>

\* the push of a new group of the given type onto the stack
PushOpsGroup(type, exit_op) ==
    /\ ops_groups' = Append(ops_groups, NewOpsGroup(type, exit_op, Top))
    /\ groups' = Append(groups, Len(ops_groups) + 1)
    /\ UNCHANGED <<ops, raised>>

\* with OpsGroup(group_type=type):
OpsGroupEnter(type) ==
    /\ raised = NoError /\ groups # <<>>
    /\ PushOpsGroup(type, 0)
    /\ UNCHANGED <<sanitizerVars, loaderVars, factoryVars, hookVars>>

\* the scope opened before the cleanup task is validated
ExitHandlerEnterThenValidate(exit_op) ==
    /\ raised = NoError /\ groups # <<>>
    /\ ops_groups' = Append(ops_groups, NewOpsGroup("exit_handler", exit_op, Top))
    /\ groups' = Append(groups, Len(ops_groups) + 1)
    /\ raised' = IF ops[exit_op].dependent_names # {} THEN <<"ValueError">> ELSE raised
    /\ UNCHANGED <<ops, sanitizerVars, loaderVars, factoryVars, hookVars>>

\* with ExitHandler(exit_op=exit_op): the cleanup task must not run after any task
ExitHandlerEnter(exit_op) ==
    /\ raised = NoError /\ groups # <<>>
    /\ IF ops[exit_op].dependent_names # {}
       THEN /\ raised' = <<"ValueError">>
            /\ UNCHANGED <<groups, ops_groups, ops>>
       ELSE PushOpsGroup("exit_handler", exit_op)
    /\ UNCHANGED <<sanitizerVars, loaderVars, factoryVars, hookVars>>

\* the end of a with block of a group, also when an exception leaves it
OpsGroupExit ==
    /\ Len(groups) > 1
    /\ LET group == Top
           parent == groups[Len(groups) - 1]
       IN ops_groups' =
              [ops_groups EXCEPT ![group].closed = Closings + 1,
                                 ![parent].groups = Append(@, group)]
    /\ groups' = SubSeq(groups, 1, Len(groups) - 1)
    /\ UNCHANGED <<ops, raised, sanitizerVars, loaderVars, factoryVars, hookVars>>

\* the end of the with block of the pipeline
PipelineExit ==
    /\ Len(groups) = 1
    /\ groups' = <<>>
    /\ UNCHANGED <<ops_groups, ops, raised, sanitizerVars, loaderVars, factoryVars,
                   hookVars>>

\* the task registered in the root group whatever the current group
RegisterOpInRoot(group) ==
    /\ ops' = Append(ops, [dependent_names |-> {}, group |-> group])
    /\ ops_groups' = [ops_groups EXCEPT ![1].ops = Append(@, Len(ops) + 1)]

\* the registration of a new task in the group on top of the stack
RegisterOp(group) ==
    /\ ops' = Append(ops, [dependent_names |-> {}, group |-> group])
    /\ ops_groups' = [ops_groups EXCEPT ![group].ops = Append(@, Len(ops) + 1)]

\* ContainerOp(name, image) inside the pipeline
ContainerOp ==
    /\ raised = NoError /\ groups # <<>>
    /\ RegisterOp(Top)
    /\ UNCHANGED <<groups, raised, sanitizerVars, loaderVars, factoryVars, hookVars>>

Dependencies ==
    {pair \in (1..Len(ops)) \X (1..Len(ops)) : pair[2] \in ops[pair[1]].dependent_names}

\* op.after(other)
After(op, other) ==
    /\ raised = NoError /\ groups # <<>>
    /\ op # other
    /\ other \notin ops[op].dependent_names
    /\ ops' = [ops EXCEPT ![op].dependent_names = @ \cup {other}]
    /\ UNCHANGED <<groups, ops_groups, raised, sanitizerVars, loaderVars, factoryVars,
                   hookVars>>

InitPipeline ==
    IdleSanitizer /\ IdleLoader /\ IdleFactory /\ IdleHooks /\ IdlePipeline

\* scopes and tasks of one pipeline
NextGroups ==
    \/ PipelineEnter
    \/ Len(ops_groups) < MaxGroups /\ \E type \in GroupTypes : OpsGroupEnter(type)
    \/ OpsGroupExit
    \/ PipelineExit
    \/ Len(ops) < MaxOps /\ ContainerOp

SpecGroups == InitPipeline /\ [][NextGroups]_vars

\* the same with exit handlers and declared dependencies
NextExitHandler ==
    \/ PipelineEnter
    \/ Len(ops_groups) < MaxExitGroups /\ \E type \in GroupTypes : OpsGroupEnter(type)
    \/ Len(ops_groups) < MaxExitGroups /\ \E exit_op \in 1..Len(ops) : ExitHandlerEnter(exit_op)
    \/ OpsGroupExit
    \/ PipelineExit
    \/ Len(ops) < MaxExitOps /\ ContainerOp
    \/ /\ Cardinality(Dependencies) < MaxAfter
       /\ \E op \in 1..Len(ops), other \in 1..Len(ops) : After(op, other)

SpecExitHandler == InitPipeline /\ [][NextExitHandler]_vars

IsStrictlyIncreasing(seq) == \A i, j \in 1..Len(seq) : i < j => seq[i] < seq[j]

Occurrences(seq, x) == Cardinality({i \in 1..Len(seq) : seq[i] = x})

\* C1: every task is a member of exactly one group, the group that was
\* current when it was constructed; the tasks of a group are in construction
\* order; the child groups of a group are groups entered under it, in the
\* order their scopes were closed, and every closed group is a child of
\* exactly the group it was entered under.
C1_MembershipAndOrder ==
    /\ \A o \in 1..Len(ops) :
           \A g \in 1..Len(ops_groups) :
               Occurrences(ops_groups[g].ops, o) = (IF g = ops[o].group THEN 1 ELSE 0)
    /\ \A g \in 1..Len(ops_groups) :
           /\ IsStrictlyIncreasing(ops_groups[g].ops)
           /\ \A i \in 1..Len(ops_groups[g].groups) :
                  LET child == ops_groups[g].groups[i]
                  IN ops_groups[child].parent = g /\ ops_groups[child].closed > 0
           /\ IsStrictlyIncreasing(
                  [i \in 1..Len(ops_groups[g].groups) |->
                      ops_groups[ops_groups[g].groups[i]].closed])
    /\ \A c \in 1..Len(ops_groups) :
           ops_groups[c].closed > 0 =>
               \A g \in 1..Len(ops_groups) :
                   Occurrences(ops_groups[g].groups, c) =
                       (IF g = ops_groups[c].parent THEN 1 ELSE 0)

\* the pipeline of TestOpsGroup.test_basic, all scopes closed:
\* exit_handler{op1, branch{op2, op3}, loop{op4}}
C1_Witness ==
    /\ groups = <<>>
    /\ Len(ops_groups) = 4 /\ Len(ops) = 4
    /\ ops_groups[1].groups = <<2>> /\ ops_groups[1].ops = <<>>
    /\ ops_groups[2].type = "exit_handler"
    /\ ops_groups[2].ops = <<1>> /\ ops_groups[2].groups = <<3, 4>>
    /\ ops_groups[3].type = "branch"
    /\ ops_groups[3].ops = <<2, 3>> /\ ops_groups[3].groups = <<>>
    /\ ops_groups[4].type = "loop"
    /\ ops_groups[4].ops = <<4>> /\ ops_groups[4].groups = <<>>

\* C6: entering an exit-handler scope whose cleanup task was declared to run
\* after another task raises ValueError and opens no scope: the step that
\* raises leaves the group stack and every group's sequences as they were,
\* and no scope is ever opened for a cleanup task with a declared dependency.
C6_InvalidExitOpRaisesBeforeOpen ==
    [][/\ (raised = NoError /\ raised' # NoError) =>
              /\ raised' = <<"ValueError">>
              /\ groups' = groups /\ ops_groups' = ops_groups
              /\ \E exit_op \in 1..Len(ops) : ops[exit_op].dependent_names # {}
       /\ Len(ops_groups') > Len(ops_groups) =>
              LET opened == ops_groups'[Len(ops_groups')]
              IN opened.exit_op # 0 => ops[opened.exit_op].dependent_names = {}
      ]_vars

\* TestExitHandler.test_invalid_exit_op: the entry raised inside the pipeline
C6_Witness ==
    /\ raised = <<"ValueError">>
    /\ groups = <<1>>
    /\ Len(ops_groups) = 1
    /\ \E exit_op \in 1..Len(ops) : ops[exit_op].dependent_names # {}

====
